---------------------------- MODULE Spec2Model ----------------------------
(***************************************************************************)
(* Kor file viewer: the upload handler of app.py and the parsing pipeline  *)
(* of main.py (parse_kor_measurements and clean_kor_measurements).         *)
(*                                                                         *)
(* Text is modelled at token granularity.  A field is a sequence of        *)
(* tokens, a token is an indivisible piece of text (a word, a blank " "),  *)
(* and a line is the sequence of its comma-separated fields, i.e. what     *)
(* line.split(",") returns.  "," in line is Len(line) > 1.                 *)
(*                                                                         *)
(* pandas is modelled by what the calls of main.py do to the shape and the *)
(* cells of a table: read_csv's field-count rules (implicit index, padding,*)
(* ParserError) and missing-value texts, concat's outer join, query,       *)
(* assign, drop, reindex, and to_datetime raising on a text that is no     *)
(* timestamp.  Cells stay texts: dtype inference is not modelled.  The     *)
(* header lines of the input have distinct, non-empty column names that    *)
(* stay distinct once renamed.                                             *)
(***************************************************************************)
EXTENDS Naturals, Sequences, FiniteSets

VARIABLES
    pc,               \* position in the handler / parser
    tmp_exists,       \* the NamedTemporaryFile(delete=False) is on disk
    n,                \* number of input lines consumed by the for loop
    current_block,    \* main.py: current_block
    all_data_blocks,  \* main.py: all_data_blocks
    fields,           \* main.py: fields, the split of the last marker line
    bi,               \* index of the block the assembling loop is at
    dataframes,       \* main.py: dataframes
    warned,           \* serials of the blocks the "Warning:" print named
    df,               \* app.py: df, what parse_kor_measurements returned
    exc,              \* the exception that left parse_kor_measurements
    nearest_marker,   \* history: serial of the nearest preceding marker line
    next_id,          \* history: number of data lines accepted so far
    seen              \* history: what followed the markers read so far

vars == <<pc, tmp_exists, n, current_block, all_data_blocks, fields, bi,
          dataframes, warned, df, exc, nearest_marker, next_id, seen>>

-----------------------------------------------------------------------------
(* Bounds *)

MaxLines == 6

-----------------------------------------------------------------------------
(* Text helpers *)

None == <<"<None>">>
NaN == <<"<NaN>">>
NaT == <<"<NaT>">>
NoHeaders == << None >>
NoFrame == [columns |-> << None >>, rows |-> <<>>]

F(tok) == <<tok>>
Empty == <<>>
Blank == <<" ">>

RECURSIVE lstrip(_)
lstrip(f) == IF f # <<>> /\ Head(f) = " " THEN lstrip(Tail(f)) ELSE f

RECURSIVE rstrip(_)
rstrip(f) ==
    IF f # <<>> /\ f[Len(f)] = " " THEN rstrip(SubSeq(f, 1, Len(f) - 1)) ELSE f

strip(f) == rstrip(lstrip(f))

\* str.strip() of a whole line: only its two ends lose their blanks
line_strip(l) ==
    IF Len(l) = 1 THEN << strip(l[1]) >>
    ELSE [i \in 1..Len(l) |->
            IF i = 1 THEN lstrip(l[1])
            ELSE IF i = Len(l) THEN rstrip(l[i]) ELSE l[i]]

is_blank(l) == Len(l) = 1 /\ l[1] = <<>>

startswith(l, prefix) == l[1] # <<>> /\ l[1][1] = prefix

has_comma(l) == Len(l) > 1

field_has_signature(f) ==
    \E j \in 1..Len(f) :
        /\ j + 2 <= Len(f)
        /\ f[j] = "TIME" /\ f[j + 1] = " " /\ f[j + 2] = "(HH:MM:SS)"

has_signature(l) == \E i \in 1..Len(l) : field_has_signature(l[i])


-----------------------------------------------------------------------------
(* Program constants *)

SerialFirstIndex == 4
SerialEndIndex == 7
MinFields == 9

Min(a, b) == IF a < b THEN a ELSE b
Max(a, b) == IF a > b THEN a ELSE b

-----------------------------------------------------------------------------
(* The input: lines a Kor export can hold *)

Marker == F("SENSOR SERIAL NUMBER:")

\* two candidates in indices 4 and 5, the first one padded with blanks
MarkerS1 == <<Marker, Empty, Empty, Empty, <<" ", "S1", " ">>, F("S2")>>
\* index 4 is blank text, the serial is in index 5
MarkerTBD == <<Marker, Empty, Empty, Empty, Blank, F("TBD"), Empty>>
\* indices 4 and 5 are empty, the serial is in index 6; index 7 is populated too
MarkerS2 == <<Marker, Empty, Empty, Empty, Empty, Empty, F("S2"), F("S1")>>
\* only indices 3 and 7 are populated
MarkerOutside == <<Marker, Empty, Empty, F("S1"), Empty, Empty, Blank, F("S2")>>
\* fewer than five fields
MarkerShort == <<Marker, F("S1"), F("S2")>>

MarkerLines == {MarkerS1, MarkerTBD, MarkerS2, MarkerOutside, MarkerShort}

ColDate == <<"DATE", " ", "(MM/DD/YYYY)">>
ColTime == <<"TIME", " ", "(HH:MM:SS)">>
ColSite == <<"SITE", " ", "NAME">>
ColFile == <<"FILE", " ", "NAME">>
ColLat == <<"GPS", " ", "LATITUDE">>
ColLon == <<"GPS", " ", "LONGITUDE">>

HeaderA ==
    <<ColDate, ColTime, ColSite, ColFile, ColLat, ColLon,
      <<"DEPTH", " ", "M">>, F("PH"), F("SAL"), F("TEMP")>>
\* another sensor: no FILE NAME, an ODO column
HeaderB ==
    <<ColDate, ColTime, ColSite, ColLat, ColLon,
      <<"DEPTH", " ", "M">>, F("PH"), F("SAL"), F("TEMP"), F("ODO")>>

\* no SITE NAME
HeaderC ==
    <<ColDate, ColTime, ColFile, ColLat, ColLon,
      <<"DEPTH", " ", "M">>, F("PH"), F("SAL"), F("TEMP"), F("ODO")>>

HeaderLines == {HeaderA, HeaderB, HeaderC}

Date1 == F("01/02/2024")
Time1 == F("12:00:00")
Rest == <<F("Site1"), F("f.csv"), F("45.1"), F("-93.2"), F("1.5"), F("7.1"),
          F("0.2"), F("20.3")>>

RowOk == <<Date1, Time1>> \o Rest
RowBadDate == <<F("not-a-date"), Time1>> \o Rest
\* one more leading field than the header has columns
RowLong == <<F("17")>> \o RowOk
\* nine fields only
RowShort == SubSeq(RowOk, 1, 9)

DataLines == {RowOk, RowBadDate, RowLong, RowShort}

NoiseLines ==
    { << Empty >>,
      << Blank >>,
      << F("free text") >>,
      <<F("MEAN VALUE:")>> \o RowOk,
      <<F("STANDARD DEVIATION:"), ColTime>> \o RowOk,
      <<F("sep="), Empty>>,
      <<F("Kor MEASUREMENT")>> \o RowOk,
      <<<<"FILE CREATED:", " ", "TIME", " ", "(HH:MM:SS)">>>> }

InputLines == MarkerLines \cup HeaderLines \cup DataLines \cup NoiseLines

AnnotationPrefixes ==
    {"MEAN VALUE:", "STANDARD DEVIATION:", "sep=", "FILE CREATED:",
     "Kor MEASUREMENT"}

-----------------------------------------------------------------------------
(* parse_kor_measurements: the segmenting loop *)

new_block == [serial |-> None, headers |-> NoHeaders, data_lines |-> <<>>]

qualifies_with_header_only(block) == block.headers # NoHeaders

\* truthiness of block["headers"] and block["data_lines"]
qualifies(block) == block.headers # NoHeaders /\ block.data_lines # <<>>

parse_serial_two_positions(fs) ==
    LET idx == {i \in SerialFirstIndex .. (Min(SerialEndIndex - 1, Len(fs)) - 1) :
                    strip(fs[i + 1]) # <<>>}
    IN  IF idx = {} THEN None
        ELSE strip(fs[(CHOOSE i \in idx : \A j \in idx : i <= j) + 1])

\* for i in range(4, min(7, len(fields))): first fields[i].strip() that is not empty
parse_serial(fs) ==
    LET idx == {i \in SerialFirstIndex .. (Min(SerialEndIndex, Len(fs)) - 1) :
                    strip(fs[i + 1]) # <<>>}
    IN  IF idx = {} THEN None
        ELSE strip(fs[(CHOOSE i \in idx : \A j \in idx : i <= j) + 1])

\* the lines both early `continue`s skip
is_summary(l) ==
    startswith(l, "MEAN VALUE:") \/ startswith(l, "STANDARD DEVIATION:")

is_excluded(l) ==
    startswith(l, "sep=") \/ startswith(l, "Kor MEASUREMENT")
        \/ startswith(l, "FILE CREATED:")

is_data_line(l, block) ==
    has_comma(l) /\ ~is_excluded(l) /\ block.serial # None

flush_prepends(blocks, block) ==
    IF qualifies(block) THEN <<block>> \o blocks ELSE blocks

flush(blocks, block) == IF qualifies(block) THEN Append(blocks, block) ELSE blocks

\* the kinds of lines, for the history variables
IsMarkerLine(l) ==
    ~is_blank(l) /\ ~is_summary(l) /\ startswith(l, "SENSOR SERIAL NUMBER:")

IsHeaderLine(l) ==
    ~is_blank(l) /\ ~is_summary(l) /\ ~IsMarkerLine(l) /\ has_signature(l)

IsDataRow(l) ==
    /\ ~is_blank(l) /\ ~is_summary(l) /\ ~IsMarkerLine(l) /\ ~IsHeaderLine(l)
    /\ has_comma(l) /\ ~is_excluded(l) /\ Len(l) > MinFields

\* one iteration of `for line in lines`
ReadLine(raw) ==
    /\ pc = "segment"
    /\ n < MaxLines
    /\ n' = n + 1
    /\ LET line == line_strip(raw) IN
        /\ nearest_marker' =
              IF IsMarkerLine(line) THEN parse_serial(line) ELSE nearest_marker
        /\ seen' =
              IF IsMarkerLine(line)
              THEN [header |-> FALSE, row |-> FALSE,
                    complete |-> seen.complete \/ (seen.header /\ seen.row)]
              ELSE IF IsHeaderLine(line) THEN [seen EXCEPT !.header = TRUE]
              ELSE IF IsDataRow(line) /\ nearest_marker # None
              THEN [seen EXCEPT !.row = TRUE]
              ELSE seen
        /\ IF is_blank(line) \/ is_summary(line)
           THEN UNCHANGED <<current_block, all_data_blocks, fields, next_id>>
           ELSE IF startswith(line, "SENSOR SERIAL NUMBER:")
           THEN /\ all_data_blocks' = flush(all_data_blocks, current_block)
                /\ fields' = line
                /\ current_block' = [new_block EXCEPT !.serial = parse_serial(line)]
                /\ UNCHANGED next_id
           ELSE IF has_signature(line)
           THEN /\ current_block' = [current_block EXCEPT !.headers = line]
                /\ UNCHANGED <<all_data_blocks, fields, next_id>>
           ELSE IF is_data_line(line, current_block) /\ Len(line) > MinFields
           THEN /\ current_block' =
                      [current_block EXCEPT !.data_lines =
                          Append(@, [text |-> line, id |-> next_id + 1,
                                     marker |-> nearest_marker])]
                /\ next_id' = next_id + 1
                /\ UNCHANGED <<all_data_blocks, fields>>
           ELSE UNCHANGED <<current_block, all_data_blocks, fields, next_id>>
    /\ UNCHANGED <<pc, tmp_exists, bi, dataframes, warned, df, exc>>

\* the loop ends: "Don't forget the last block"
EndOfInput ==
    /\ pc = "segment"
    /\ all_data_blocks' = flush(all_data_blocks, current_block)
    /\ pc' = "assemble"
    /\ bi' = 1
    /\ UNCHANGED <<tmp_exists, n, current_block, fields, dataframes, warned, df,
                   exc, nearest_marker, next_id, seen>>

-----------------------------------------------------------------------------
(* pandas tables: columns is the sequence of column names, each row holds   *)
(* its cells in column order.  id and marker are history tags of the input  *)
(* line a row came from; no operation reads them.                           *)

SERIAL_NUMBER == <<"SERIAL", "_", "NUMBER">>
SITE_NAME == <<"SITE", "_", "NAME">>
FILE_NAME == <<"FILE", "_", "NAME">>
Activity_Date_Time == F("Activity_Date_Time")
ColumnDate == F("Date")
ColumnTime == F("Time")
TBD == F("TBD")

\* pd.DataFrame()
empty_frame == [columns |-> <<>>, rows |-> <<>>]

has_column(frame, name) == \E i \in 1..Len(frame.columns) : frame.columns[i] = name

column_index(columns, name) == CHOOSE i \in 1..Len(columns) : columns[i] = name

cell(frame, row, name) == row.cells[column_index(frame.columns, name)]

\* texts read_csv turns into a missing value (its default na_values)
NaValues ==
    {Empty, F("NA"), F("N/A"), F("n/a"), F("NaN"), F("nan"), F("NULL"), F("null"),
     F("#N/A"), F("<NA>")}

to_cell(f) == IF f \in NaValues THEN NaN ELSE f

\* number of fields the tokenizer settles on: the header's, or the first row's
\* when that one is longer
csv_width(header, lines) ==
    IF lines = <<>> THEN Len(header) ELSE Max(Len(header), Len(lines[1]))

\* "Expected k fields in line i, saw m": a later row longer than that
csv_error(header, lines) ==
    \E k \in 2..Len(lines) : Len(lines[k]) > csv_width(header, lines)

\* pd.read_csv(block_csv_data): the header names the LAST columns; fields a
\* first row has in excess become the index, shorter rows are padded
read_csv(header, lines, tags) ==
    LET width == csv_width(header, lines)
        lead == width - Len(header)
    IN  [columns |-> header,
         rows |-> [k \in 1..Len(lines) |->
                     [id |-> tags[k].id,
                      marker |-> tags[k].marker,
                      cells |-> [c \in 1..Len(header) |->
                                   IF lead + c <= Len(lines[k])
                                   THEN to_cell(lines[k][lead + c])
                                   ELSE NaN]]]]

RECURSIVE union_columns(_, _)
union_columns(frames, acc) ==
    IF frames = <<>> THEN acc
    ELSE LET cols == Head(frames).columns
             known == {acc[i] : i \in 1..Len(acc)}
         IN  union_columns(Tail(frames),
                           acc \o SelectSeq(cols, LAMBDA c : c \notin known))

realign(frame, columns) ==
    [k \in 1..Len(frame.rows) |->
        [frame.rows[k] EXCEPT !.cells =
            [c \in 1..Len(columns) |->
                IF has_column(frame, columns[c])
                THEN cell(frame, frame.rows[k], columns[c]) ELSE NaN]]]

RECURSIVE concat_rows(_, _)
concat_rows(frames, columns) ==
    IF frames = <<>> THEN <<>>
    ELSE realign(Head(frames), columns) \o concat_rows(Tail(frames), columns)

concat_first_shape(frames) ==
    LET same == SelectSeq(frames, LAMBDA f : f.columns = Head(frames).columns)
    IN  [columns |-> Head(frames).columns,
         rows |-> concat_rows(same, Head(frames).columns)]

\* pd.concat(dataframes, ignore_index=True)
concat(frames) ==
    LET columns == union_columns(frames, <<>>)
    IN  [columns |-> columns, rows |-> concat_rows(frames, columns)]

\* df.reindex(columns=order)
reindex(frame, order) ==
    [columns |-> order, rows |-> realign(frame, order)]

\* df.drop(columns=names)
drop(frame, names) ==
    reindex(frame, SelectSeq(frame.columns, LAMBDA c : c \notin names))

\* df.assign(name=values): replaces the column in place, or appends it
assign(frame, name, values) ==
    IF has_column(frame, name)
    THEN [frame EXCEPT !.rows =
            [k \in 1..Len(frame.rows) |->
                [frame.rows[k] EXCEPT
                    !.cells[column_index(frame.columns, name)] = values[k]]]]
    ELSE [columns |-> Append(frame.columns, name),
          rows |-> [k \in 1..Len(frame.rows) |->
                      [frame.rows[k] EXCEPT !.cells = Append(@, values[k])]]]

-----------------------------------------------------------------------------
(* clean_kor_measurements *)

contains(col, tok) == \E i \in 1..Len(col) : col[i] = tok

rename_columns(col) ==
    IF contains(col, "LATITUDE") THEN F("Latitude")
    ELSE IF contains(col, "LONGITUDE") THEN F("Longitude")
    ELSE IF Len(col) >= 2 /\ col[1] = "TIME" /\ col[2] = " " THEN ColumnTime
    ELSE IF Len(col) >= 2 /\ col[1] = "DATE" /\ col[2] = " " THEN ColumnDate
    ELSE [i \in 1..Len(col) |-> IF col[i] = " " THEN "_" ELSE col[i]]

\* df.rename(columns=rename_columns)
rename(frame) ==
    [frame EXCEPT !.columns = [i \in 1..Len(@) |-> rename_columns(@[i])]]

\* df.query("SERIAL_NUMBER != 'TBD'")
query(frame) ==
    [frame EXCEPT !.rows =
        SelectSeq(@, LAMBDA r : cell(frame, r, SERIAL_NUMBER) # TBD)]

DateTexts == {Date1}
TimeTexts == {Time1}

\* x.Date + " " + x.Time, one row: missing when either side is
date_time_text(frame, r) ==
    IF cell(frame, r, ColumnDate) = NaN \/ cell(frame, r, ColumnTime) = NaN
    THEN NaN
    ELSE cell(frame, r, ColumnDate) \o Blank \o cell(frame, r, ColumnTime)

is_timestamp(text) ==
    \E d \in DateTexts, t \in TimeTexts : text = d \o Blank \o t

\* pd.to_datetime(series): errors="raise" is the default
to_datetime_raises(frame) ==
    \E k \in 1..Len(frame.rows) :
        LET text == date_time_text(frame, frame.rows[k])
        IN  text # NaN /\ ~is_timestamp(text)

to_datetime(frame) ==
    [k \in 1..Len(frame.rows) |->
        LET text == date_time_text(frame, frame.rows[k])
        IN  IF text = NaN THEN NaT ELSE <<"Timestamp">> \o text]

final_order(columns) ==
    <<Activity_Date_Time>>
        \o SelectSeq(columns,
                     LAMBDA c : c \notin {Activity_Date_Time, FILE_NAME, SITE_NAME})
        \o <<FILE_NAME, SITE_NAME>>

\* the exception the method chain ends with, "none" when it returns
clean_raises(combined) ==
    LET renamed == rename(combined)
        kept == query(renamed)
    IN  IF ~has_column(renamed, ColumnDate) \/ ~has_column(renamed, ColumnTime)
        THEN "AttributeError"
        ELSE IF to_datetime_raises(kept) THEN "ValueError"
        ELSE IF ~has_column(renamed, SITE_NAME) THEN "KeyError"
        ELSE "none"

clean_kor_measurements(combined) ==
    LET kept == query(rename(combined))
        dated == assign(kept, Activity_Date_Time, to_datetime(kept))
        dropped == drop(dated, {ColumnDate, ColumnTime})
        sited == assign(dropped, SITE_NAME,
                        [k \in 1..Len(dropped.rows) |->
                            cell(dropped, dropped.rows[k], SITE_NAME)])
    IN  reindex(sited, final_order(sited.columns))

-----------------------------------------------------------------------------
(* parse_kor_measurements: assembling the blocks, and app.py's handler *)

csv_header(block) == <<SERIAL_NUMBER>> \o block.headers

csv_lines(block) ==
    [k \in 1..Len(block.data_lines) |-> <<block.serial>> \o block.data_lines[k].text]

\* app.py: the NamedTemporaryFile is written and closed
WriteTmp ==
    /\ pc = "idle"
    /\ tmp_exists' = TRUE
    /\ pc' = "open"
    /\ UNCHANGED <<n, current_block, all_data_blocks, fields, bi, dataframes,
                   warned, df, exc, nearest_marker, next_id, seen>>

\* app.py: uploaded_file is None, the help text is shown
ShowHelp ==
    /\ pc = "idle"
    /\ pc' = "done"
    /\ UNCHANGED <<tmp_exists, n, current_block, all_data_blocks, fields, bi,
                   dataframes, warned, df, exc, nearest_marker, next_id, seen>>

Encodings == <<"utf-16", "latin-1", "cp1252">>

\* the first encoding that decodes the file; latin-1 decodes every byte string
resolve_encoding(decodes) ==
    IF \E i \in 1..Len(Encodings) : decodes[Encodings[i]]
    THEN Encodings[CHOOSE i \in 1..Len(Encodings) :
                      /\ decodes[Encodings[i]]
                      /\ \A j \in 1..(i - 1) : ~decodes[Encodings[j]]]
    ELSE "ValueError"

Decodable ==
    {d \in [{"utf-16", "latin-1", "cp1252"} -> BOOLEAN] : d["latin-1"]}

\* the encodings loop and f.readlines()
OpenFile ==
    /\ pc = "open"
    /\ \E d \in Decodable :
          IF resolve_encoding(d) = "ValueError"
          THEN pc' = "raised" /\ exc' = "ValueError"
          ELSE pc' = "segment" /\ exc' = exc
    /\ UNCHANGED <<tmp_exists, n, current_block, all_data_blocks, fields, bi,
                   dataframes, warned, df, nearest_marker, next_id, seen>>

\* one iteration of `for block in all_data_blocks`, read_csv returns
ReadBlock ==
    /\ pc = "assemble"
    /\ bi <= Len(all_data_blocks)
    /\ LET block == all_data_blocks[bi] IN
        /\ ~csv_error(csv_header(block), csv_lines(block))
        /\ dataframes' =
              IF qualifies(block)
              THEN Append(dataframes,
                          read_csv(csv_header(block), csv_lines(block),
                                   block.data_lines))
              ELSE dataframes
    /\ bi' = bi + 1
    /\ UNCHANGED <<pc, tmp_exists, n, current_block, all_data_blocks, fields,
                   warned, df, exc, nearest_marker, next_id, seen>>

\* one iteration of `for block in all_data_blocks`, read_csv raises
WarnBlock ==
    /\ pc = "assemble"
    /\ bi <= Len(all_data_blocks)
    /\ LET block == all_data_blocks[bi] IN
        /\ qualifies(block)
        /\ csv_error(csv_header(block), csv_lines(block))
        /\ warned' = Append(warned, block.serial)
    /\ bi' = bi + 1
    /\ UNCHANGED <<pc, tmp_exists, n, current_block, all_data_blocks, fields,
                   dataframes, df, exc, nearest_marker, next_id, seen>>

\* `if dataframes:` ... return, back in app.py with df bound or an exception
Combine ==
    /\ pc = "assemble"
    /\ bi > Len(all_data_blocks)
    /\ IF dataframes # <<>>
       THEN LET combined_df == concat(dataframes) IN
            IF clean_raises(combined_df) = "none"
            THEN /\ df' = clean_kor_measurements(combined_df)
                 /\ pc' = "returned"
                 /\ exc' = exc
            ELSE /\ exc' = clean_raises(combined_df)
                 /\ pc' = "raised"
                 /\ df' = df
       ELSE /\ df' = empty_frame
            /\ pc' = "returned"
            /\ exc' = exc
    /\ UNCHANGED <<tmp_exists, n, current_block, all_data_blocks, fields, bi,
                   dataframes, warned, nearest_marker, next_id, seen>>

\* app.py: os.unlink(tmp_file_path)
Unlink ==
    /\ pc = "returned"
    /\ tmp_exists' = FALSE
    /\ pc' = "render"
    /\ UNCHANGED <<n, current_block, all_data_blocks, fields, bi, dataframes,
                   warned, df, exc, nearest_marker, next_id, seen>>

\* app.py: the table, the metrics and the map are drawn
Render ==
    /\ pc = "render"
    /\ pc' = "done"
    /\ UNCHANGED <<tmp_exists, n, current_block, all_data_blocks, fields, bi,
                   dataframes, warned, df, exc, nearest_marker, next_id, seen>>

\* app.py: except Exception as e: st.error, st.info
ShowError ==
    /\ pc = "raised"
    /\ pc' = "done"
    /\ UNCHANGED <<tmp_exists, n, current_block, all_data_blocks, fields, bi,
                   dataframes, warned, df, exc, nearest_marker, next_id, seen>>

Init ==
    /\ pc = "idle"
    /\ tmp_exists = FALSE
    /\ n = 0
    /\ current_block = new_block
    /\ all_data_blocks = <<>>
    /\ fields = << None >>
    /\ bi = 0
    /\ dataframes = <<>>
    /\ warned = <<>>
    /\ df = NoFrame
    /\ exc = "none"
    /\ nearest_marker = None
    /\ next_id = 0
    /\ seen = [header |-> FALSE, row |-> FALSE, complete |-> FALSE]

Next ==
    \/ WriteTmp
    \/ ShowHelp
    \/ OpenFile
    \/ \E raw \in InputLines : ReadLine(raw)
    \/ EndOfInput
    \/ ReadBlock
    \/ WarnBlock
    \/ Combine
    \/ Unlink
    \/ Render
    \/ ShowError

Spec == Init /\ [][Next]_vars

-----------------------------------------------------------------------------
(* Properties *)

\* parse_kor_measurements has returned a table to the handler
Returned == pc \in {"returned", "render"} \/ (pc = "done" /\ df # NoFrame)

\* parse_kor_measurements is over, by return or by exception
ParseOver == Returned \/ pc = "raised" \/ (pc = "done" /\ exc # "none")

RowIds(rows) == {rows[k].id : k \in 1..Len(rows)}

RECURSIVE AllRows(_)
AllRows(frames) ==
    IF frames = <<>> THEN <<>> ELSE Head(frames).rows \o AllRows(Tail(frames))

RECURSIVE AllDataLines(_)
AllDataLines(blocks) ==
    IF blocks = <<>> THEN <<>>
    ELSE Head(blocks).data_lines \o AllDataLines(Tail(blocks))

Increasing(rows) ==
    \A i, j \in 1..Len(rows) : i < j => rows[i].id < rows[j].id

\* C1: every row of the returned dataset carries as SERIAL_NUMBER the serial of
\* the nearest marker line that precedes the row in the input.
C1_SerialOfNearestMarker ==
    Returned =>
        \A k \in 1..Len(df.rows) :
            /\ has_column(df, SERIAL_NUMBER)
            /\ cell(df, df.rows[k], SERIAL_NUMBER) = df.rows[k].marker

\* no block starts with a data line that has more fields than its header
Aligned ==
    \A b \in 1..Len(all_data_blocks) :
        Len(all_data_blocks[b].data_lines[1].text) <= Len(all_data_blocks[b].headers)

\* with such blocks only, the SERIAL_NUMBER of every returned row is the
\* serial of its marker line
SerialOfNearestMarkerWhenAligned == Aligned => C1_SerialOfNearestMarker

\* C2: whenever the upload handler has returned control, the temporary file
\* written from the uploaded bytes has been deleted.
C2_TmpFileDeleted == pc = "done" => ~tmp_exists

\* C3: rows keep their input order: in the closed blocks, in the per-block
\* tables and in the returned dataset a row that came earlier in the input
\* stands before every row that came later.
C3_OrderPreserved ==
    /\ Increasing(AllDataLines(all_data_blocks))
    /\ Increasing(AllRows(dataframes))
    /\ Returned => Increasing(df.rows)

\* two blocks, S1 before S2, both in the returned dataset
C3_Witness ==
    /\ pc = "returned"
    /\ \E i, j \in 1..Len(df.rows) :
          /\ i < j
          /\ df.rows[i].marker = F("S1") /\ df.rows[j].marker = F("S2")
          /\ cell(df, df.rows[i], SERIAL_NUMBER) = F("S1")
          /\ cell(df, df.rows[j], SERIAL_NUMBER) = F("S2")

\* C4: no row of the returned dataset has SERIAL_NUMBER "TBD"; the rows of the
\* blocks whose marker serial is "TBD" are removed and the rows of all other
\* blocks are kept.
C4_SentinelRowsRemoved ==
    (Returned /\ dataframes # <<>>) =>
        /\ \A k \in 1..Len(df.rows) : cell(df, df.rows[k], SERIAL_NUMBER) # TBD
        /\ RowIds(df.rows) =
              {r.id : r \in {x \in {AllRows(dataframes)[k] :
                                       k \in 1..Len(AllRows(dataframes))} :
                                x.marker # TBD}}

\* with blocks whose first data line fits the header, exactly the rows of the
\* "TBD" blocks are removed
SentinelRowsRemovedWhenAligned == Aligned => C4_SentinelRowsRemoved

BadTimestampRows(frame) ==
    {k \in 1..Len(frame.rows) :
        LET d == cell(frame, frame.rows[k], ColumnDate)
            t == cell(frame, frame.rows[k], ColumnTime)
        IN  d # NaN /\ t # NaN /\ ~(d \in DateTexts /\ t \in TimeTexts)}

\* C6: a row whose Date and Time do not combine into a timestamp is recovered
\* per row: the parse returns, that row's Activity_Date_Time is null and the
\* other rows are returned with their timestamps.
C6_TimestampRecoveredPerRow ==
    (ParseOver /\ dataframes # <<>>) =>
        LET kept == query(rename(concat(dataframes))) IN
        (/\ has_column(kept, ColumnDate) /\ has_column(kept, ColumnTime)
         /\ has_column(kept, SITE_NAME)
         /\ BadTimestampRows(kept) # {})
        => /\ Returned
           /\ Len(df.rows) = Len(kept.rows)
           /\ \A k \in BadTimestampRows(kept) :
                 cell(df, df.rows[k], Activity_Date_Time) = NaT

\* the first field among positions 5 to 7 (counted from 1) that is not empty
\* once trimmed
FirstOfPositions5To7(fs) ==
    LET pos == {p \in 5..7 : p <= Len(fs) /\ strip(fs[p]) # <<>>}
    IN  IF pos = {} THEN None
        ELSE strip(fs[CHOOSE p \in pos : \A q \in pos : p <= q])

\* C7: the serial of the block a marker line opens is the first field of the
\* marker line that is not empty after trimming among positions 5 to 7, and
\* nothing when these are all empty.
C7_SerialFromPositions5To7 ==
    fields # << None >> => current_block.serial = FirstOfPositions5To7(fields)

\* positions 5 and 6 are empty, position 7 gives the serial
C7_Witness ==
    /\ fields = MarkerS2
    /\ fields[5] = <<>> /\ fields[6] = <<>>
    /\ current_block.serial = fields[7]

\* C8: reading a line that starts with an annotation prefix leaves the current
\* block and the list of closed blocks unchanged.
C8_AnnotationLinesDiscarded ==
    [][(\E raw \in InputLines :
            /\ \E p \in AnnotationPrefixes : startswith(line_strip(raw), p)
            /\ ReadLine(raw))
        => UNCHANGED <<current_block, all_data_blocks>>]_vars

\* the header line of the block a row was read in
HeaderOf(id) ==
    LET b == CHOOSE b \in 1..Len(all_data_blocks) :
                \E k \in 1..Len(all_data_blocks[b].data_lines) :
                    all_data_blocks[b].data_lines[k].id = id
    IN  all_data_blocks[b].headers

ColumnSet(frame) == {frame.columns[i] : i \in 1..Len(frame.columns)}

RenamedInput == ColumnSet(rename(concat(dataframes)))

\* C10: in a returned non-empty dataset Activity_Date_Time is the first column,
\* FILE_NAME and SITE_NAME are the last columns exactly when the renamed input
\* has them, an absent one is no cause of failure, and the column set is the
\* renamed input's with Date and Time replaced by Activity_Date_Time.
C10_ColumnOrder ==
    /\ (Returned /\ dataframes # <<>>) =>
          /\ df.columns[1] = Activity_Date_Time
          /\ (FILE_NAME \in ColumnSet(df)) <=> (FILE_NAME \in RenamedInput)
          /\ (SITE_NAME \in ColumnSet(df)) <=> (SITE_NAME \in RenamedInput)
          /\ ColumnSet(df) =
                (RenamedInput \ {ColumnDate, ColumnTime}) \cup {Activity_Date_Time}
    /\ exc # "KeyError"

=============================================================================
